---- MODULE Spec2Model ----
(***************************************************************************)
(* The css selector builder of src/06-objects-tasks.js as a state machine. *)
(*                                                                         *)
(* The program's state is a heap of JavaScript objects.  Object 1 is the   *)
(* cssSelectorBuilder literal (the facade); every other object is a copy   *)
(* made by copyObject.  An object has a `string` field and a reference to  *)
(* its `selectorUsed` array; arrays live in their own heap so that sharing *)
(* an array between two objects is expressible.  Strings are sequences of  *)
(* one-character strings, indices of selectorUsed are 0..5 as in the code. *)
(*                                                                         *)
(* Rectangle, getJSON and fromJSON of the same file are modelled beside    *)
(* it: an object is its own properties in insertion order and the name of  *)
(* its prototype, JSON text is a sequence of tokens.  Spec runs the        *)
(* builder, SpecRectangle runs the rectangle and the JSON helpers.         *)
(* SpecSites runs the builder's methods from two callers that share the    *)
(* builder and one selector.                                               *)
(***************************************************************************)
EXTENDS Integers, Sequences, FiniteSets, TLC

\* objs   the objects: objs[1] is cssSelectorBuilder, the rest are copies
\* arrs   the selectorUsed arrays the objects refer to
\* calls  history: for each object, the <<category, value>> appends that
\*        produced it, starting on the builder
\* last   history: the call made last, its arguments and its outcome
\* steps  the number of calls made so far
VARIABLES objs, arrs, calls, last, steps

\* rect     the object made by new Rectangle(width, height)
\* json     the text getJSON returned last and the value it was given
\* decoded  the object fromJSON returned last
\* rlast    history: the rectangle or JSON call made last, and the area read
VARIABLES rect, json, decoded, rlast

\* sites    two call sites that share the builder and one selector: what each
\*          holds and was returned last, and, as history, the heap and the
\*          results the site would have had with the other site absent
VARIABLES sites

builderVars == <<objs, arrs, calls, last, steps>>
rectVars == <<rect, json, decoded, rlast>>
siteVars == <<sites>>
vars == <<objs, arrs, calls, last, steps, rect, json, decoded, rlast, sites>>

\* ---------------------------------------------------------------- bounds
\* the number of calls a run makes
MaxSteps == 3

\* ------------------------------------------------------ program constants
\* the cssSelectorBuilder object literal itself
Builder == 1
\* selectorUsed.length
NSelectors == 6

OrderError == "Selector parts should be arranged in the following order: element, id, class, attribute, pseudo-class, pseudo-element"
OccurError == "Element, id and pseudo-element should not occur more then one time inside the selector"
NoError == "none"

\* the literals a caller passes as `value`, and as `combinator`
Values == {<<"a">>, <<"b">>}
Combinators == {<<"+">>, <<">">>}

\* string: '', selectorUsed: [false, false, false, false, false, false]
EmptyString == <<>>
NoneUsed == [i \in 0..(NSelectors - 1) |-> FALSE]

\* ------------------------------------------------------------ the methods
\* A heap h is [objs |-> sequence of objects, arrs |-> sequence of arrays].
\* A method returns [heap, ret, str, err]: the heap after the call, the
\* object returned (0 for none), the string returned, the error thrown.

Return(h, ref) == [heap |-> h, ret |-> ref, str |-> EmptyString, err |-> NoError]
Throw(h, msg) == [heap |-> h, ret |-> 0, str |-> EmptyString, err |-> msg]

\* obj.selectorUsed[i]
Used(h, obj, i) == h.arrs[h.objs[obj].selectorUsed][i]

\* obj.selectorUsed[i] = true
SetUsed(h, obj, i) ==
    [h EXCEPT !.arrs[h.objs[obj].selectorUsed][i] = TRUE]

\* a copyObject that forgets the slice(): the copy shares obj's array
copyObjectShared(h, obj) ==
    [heap |-> [h EXCEPT !.objs = Append(h.objs, h.objs[obj])],
     ref |-> Len(h.objs) + 1]

\* { ...obj } with selectorUsed replaced by obj.selectorUsed.slice()
copyObject(h, obj) ==
    [heap |-> [objs |-> Append(h.objs,
                          [string |-> h.objs[obj].string,
                           selectorUsed |-> Len(h.arrs) + 1]),
               arrs |-> Append(h.arrs, h.arrs[h.objs[obj].selectorUsed])],
     ref |-> Len(h.objs) + 1]

\* this.string = this.string ? this.string : ''; this.string += value
getString(h, this, value) ==
    LET s == IF h.objs[this].string # EmptyString
             THEN h.objs[this].string ELSE EmptyString
    IN  [h EXCEPT !.objs[this].string = s \o value]

\* a checkOrder whose loop stops one short: i < this.selectorUsed.length - 1
checkOrderShort(h, this, order) ==
    \E i \in (order + 1)..(NSelectors - 2) : Used(h, this, i)

\* a checkOrder that starts its scan at `order` instead of order + 1
checkOrderFromOrder(h, this, order) ==
    \E i \in order..(NSelectors - 1) : Used(h, this, i)

\* TRUE when checkOrder(order) throws
checkOrder(h, this, order) ==
    \E i \in (order + 1)..(NSelectors - 1) : Used(h, this, i)

\* an element() that appends to the receiver itself before it throws
elementAppendsFirst(h, this, value) ==
    IF checkOrder(h, this, 0) THEN Throw(h, OrderError)
    ELSE IF Used(h, this, 0) THEN Throw(getString(h, this, value), OccurError)
    ELSE LET c == copyObject(h, this)
         IN  Return(getString(SetUsed(c.heap, c.ref, 0), c.ref, value), c.ref)

\* an element() without the selectorUsed[0] test
elementUnchecked(h, this, value) ==
    IF checkOrder(h, this, 0) THEN Throw(h, OrderError)
    ELSE LET c == copyObject(h, this)
         IN  Return(getString(SetUsed(c.heap, c.ref, 0), c.ref, value), c.ref)

\* an element() that tests selectorUsed[0] before it calls checkOrder
elementOccurFirst(h, this, value) ==
    LET c == copyObject(h, this)
    IN  IF Used(c.heap, c.ref, 0) THEN Throw(h, OccurError)
        ELSE IF checkOrder(h, this, 0) THEN Throw(h, OrderError)
        ELSE Return(getString(SetUsed(c.heap, c.ref, 0), c.ref, value), c.ref)

element(h, this, value) ==
    IF checkOrder(h, this, 0) THEN Throw(h, OrderError)
    ELSE LET c == copyObject(h, this)
         IN  IF Used(c.heap, c.ref, 0) THEN Throw(h, OccurError)
             ELSE Return(getString(SetUsed(c.heap, c.ref, 0), c.ref, value), c.ref)

\* an id() without the selectorUsed[1] test
idRepeatable(h, this, value) ==
    IF checkOrder(h, this, 1) THEN Throw(h, OrderError)
    ELSE LET c == copyObject(h, this)
         IN  Return(getString(SetUsed(c.heap, c.ref, 1), c.ref,
                              <<"#">> \o value), c.ref)

id(h, this, value) ==
    IF checkOrder(h, this, 1) THEN Throw(h, OrderError)
    ELSE LET c == copyObject(h, this)
         IN  IF Used(c.heap, c.ref, 1) THEN Throw(h, OccurError)
             ELSE Return(getString(SetUsed(c.heap, c.ref, 1), c.ref,
                                   <<"#">> \o value), c.ref)

\* a class() that tests selectorUsed[2] as element() tests selectorUsed[0]
classOnce(h, this, value) ==
    IF checkOrder(h, this, 2) THEN Throw(h, OrderError)
    ELSE LET c == copyObject(h, this)
         IN  IF Used(c.heap, c.ref, 2) THEN Throw(h, OccurError)
             ELSE Return(getString(SetUsed(c.heap, c.ref, 2), c.ref,
                                   <<".">> \o value), c.ref)

class(h, this, value) ==
    IF checkOrder(h, this, 2) THEN Throw(h, OrderError)
    ELSE LET c == copyObject(h, this)
         IN  Return(getString(SetUsed(c.heap, c.ref, 2), c.ref,
                              <<".">> \o value), c.ref)

attr(h, this, value) ==
    IF checkOrder(h, this, 3) THEN Throw(h, OrderError)
    ELSE LET c == copyObject(h, this)
         IN  Return(getString(SetUsed(c.heap, c.ref, 3), c.ref,
                              <<"[">> \o value \o <<"]">>), c.ref)

pseudoClass(h, this, value) ==
    IF checkOrder(h, this, 4) THEN Throw(h, OrderError)
    ELSE LET c == copyObject(h, this)
         IN  Return(getString(SetUsed(c.heap, c.ref, 4), c.ref,
                              <<":">> \o value), c.ref)

pseudoElement(h, this, value) ==
    IF checkOrder(h, this, 5) THEN Throw(h, OrderError)
    ELSE LET c == copyObject(h, this)
         IN  IF Used(c.heap, c.ref, 5) THEN Throw(h, OccurError)
             ELSE Return(getString(SetUsed(c.heap, c.ref, 5), c.ref,
                                   <<":", ":">> \o value), c.ref)

\* a stringify() that resets selectorUsed along with the string
stringifyResetting(h, this) ==
    [heap |-> [h EXCEPT !.objs[this].string = EmptyString,
                        !.arrs[h.objs[this].selectorUsed] = NoneUsed],
     ret |-> 0, str |-> h.objs[this].string, err |-> NoError]

\* const value = this.string; this.string = ''; return value
stringify(h, this) ==
    [heap |-> [h EXCEPT !.objs[this].string = EmptyString],
     ret |-> 0, str |-> h.objs[this].string, err |-> NoError]

\* str1, str2 taken by stringify(); this.string = `${str1} ${combinator} ${str2}`
combine(h, this, selector1, combinator, selector2) ==
    LET r1 == stringify(h, selector1)
        r2 == stringify(r1.heap, selector2)
    IN  Return([r2.heap EXCEPT !.objs[this].string =
                    r1.str \o <<" ">> \o combinator \o <<" ">> \o r2.str],
               this)


\* ------------------------------------------- Rectangle, getJSON, fromJSON
\* the numbers of the documented calls: Rectangle(10, 20), width := 5
Dims == {5, 10, 20}

\* JavaScript values: numbers, functions (with what the closure captured
\* of the constructor's parameters) and undefined
NoEnv == [width |-> 0, height |-> 0]
Num(n) == [type |-> "number", num |-> n, env |-> NoEnv]
Fn(width, height) ==
    [type |-> "function", num |-> 0, env |-> [width |-> width, height |-> height]]
Undefined == [type |-> "undefined", num |-> 0, env |-> NoEnv]

\* The prototypes: neither Rectangle.prototype nor Object.prototype is given
\* a property by this file.
Prototypes == [RectanglePrototype |-> <<>>, ObjectPrototype |-> <<>>]

\* the value of the first property named key in the pairs ps, or undefined
RECURSIVE Lookup(_, _)
Lookup(ps, key) ==
    IF ps = <<>> THEN Undefined
    ELSE IF Head(ps)[1] = key THEN Head(ps)[2]
    ELSE Lookup(Tail(ps), key)

\* obj.key: an own property, else the prototype's
Get(obj, key) ==
    IF Lookup(obj.props, key) # Undefined THEN Lookup(obj.props, key)
    ELSE Lookup(Prototypes[obj.proto], key)

\* obj.key = value, for a property obj already has: its place is kept
RECURSIVE Assign(_, _, _)
Assign(ps, key, value) ==
    IF ps = <<>> THEN << <<key, value>> >>
    ELSE IF Head(ps)[1] = key THEN << <<key, value>> >> \o Tail(ps)
    ELSE <<Head(ps)>> \o Assign(Tail(ps), key, value)

Set(obj, key, value) == [obj EXCEPT !.props = Assign(obj.props, key, value)]

\* new Rectangle(width, height)
Rectangle(width, height) ==
    [props |-> << <<"width", Num(width)>>, <<"height", Num(height)>>,
                  <<"getArea", Fn(width, height)>> >>,
     proto |-> "RectanglePrototype"]

\* the object literal { width: width, height: height }
Literal(width, height) ==
    [props |-> << <<"width", Num(width)>>, <<"height", Num(height)>> >>,
     proto |-> "ObjectPrototype"]

\* a getArea that multiplies the constructor's parameters: () => width * height
getAreaOfParameters(obj) ==
    LET f == Get(obj, "getArea")
    IN  f.env.width * f.env.height

\* obj.getArea(), for an obj that has it: () => this.width * this.height
getArea(obj) == Get(obj, "width").num * Get(obj, "height").num

\* the decimal digits of a natural number, as JSON.stringify writes it
DigitChars == <<"0", "1", "2", "3", "4", "5", "6", "7", "8", "9">>

RECURSIVE NumberText(_)
NumberText(n) ==
    IF n < 10 THEN <<DigitChars[n + 1]>>
    ELSE NumberText(n \div 10) \o <<DigitChars[(n % 10) + 1]>>

\* the members of JSON.stringify(obj): own properties in order, functions
\* and undefined left out
RECURSIVE MembersText(_)
MembersText(ps) ==
    IF ps = <<>> THEN << >>
    ELSE IF Head(ps)[2].type # "number" THEN MembersText(Tail(ps))
    ELSE LET rest == MembersText(Tail(ps))
         IN  <<"\"", Head(ps)[1], "\"", ":">> \o NumberText(Head(ps)[2].num)
             \o (IF rest = <<>> THEN <<>> ELSE <<",">> \o rest)

JSONstringify(obj) == <<"{">> \o MembersText(obj.props) \o <<"}">>

\* the value of the digit d
DigitValue(d) == (CHOOSE i \in 1..10 : DigitChars[i] = d) - 1

\* JSON.parse of the members that follow "{" or ",": acc is the number read
\* so far for the member named key ("" between members)
RECURSIVE ParseMembers(_, _, _)
ParseMembers(toks, key, acc) ==
    IF toks = <<>> THEN <<>>
    ELSE LET t == Head(toks)
         IN  IF t = "\"" /\ key = "" THEN ParseMembers(SubSeq(toks, 5, Len(toks)), toks[2], 0)
             ELSE IF t \in {",", "}"}
                  THEN (IF key = "" THEN <<>> ELSE << <<key, Num(acc)>> >>)
                       \o ParseMembers(Tail(toks), "", 0)
             ELSE ParseMembers(Tail(toks), key, acc * 10 + DigitValue(t))

JSONparse(text) ==
    [props |-> ParseMembers(Tail(text), "", 0), proto |-> "ObjectPrototype"]

\* return JSON.stringify(obj)
getJSON(obj) == JSONstringify(obj)

\* return Object.setPrototypeOf(JSON.parse(json), proto)
fromJSON(proto, text) == [JSONparse(text) EXCEPT !.proto = proto]

\* --------------------------------------------------------- the state machine
Heap == [objs |-> objs, arrs |-> arrs]

NoJson == [text |-> <<>>, width |-> 0, height |-> 0]
NoObject == [props |-> <<>>, proto |-> "none"]

\* the builder as the file defines it
BuilderInit ==
    /\ objs = <<[string |-> EmptyString, selectorUsed |-> 1]>>
    /\ arrs = <<NoneUsed>>
    /\ calls = << <<>> >>
    /\ last = [op |-> "init", self |-> 0, cat |-> 0, value |-> EmptyString,
               s1 |-> 0, comb |-> EmptyString, s2 |-> 0,
               ret |-> 0, str |-> EmptyString, err |-> NoError]
    /\ steps = 0

\* the state after new Rectangle(width, height)
RectangleInit(width, height) ==
    /\ rect = Rectangle(width, height)
    /\ json = NoJson
    /\ decoded = NoObject
    /\ rlast = [op |-> "new", area |-> 0]

\* what a call site saw of its last call: the string or the error
NoOutcome == [str |-> EmptyString, err |-> NoError]

\* no call site has done anything: h is the heap they start from
SitesInit(h) ==
    sites = [s \in {1, 2} |->
                [held |-> 0, out |-> NoOutcome,
                 alone |-> h, aheld |-> 0, aout |-> NoOutcome]]

Init ==
    /\ BuilderInit
    /\ RectangleInit(10, 20)
    /\ SitesInit([objs |-> <<>>, arrs |-> <<>>])

\* one more call is made
Step ==
    /\ steps < MaxSteps
    /\ steps' = steps + 1

\* One call this.<op>(value) of an append method whose outcome is r.
Appended(op, cat, this, value, r) ==
    /\ Step
    /\ UNCHANGED <<rectVars, siteVars>>
    /\ objs' = r.heap.objs
    /\ arrs' = r.heap.arrs
    /\ calls' = IF r.err = NoError
                THEN Append(calls, Append(calls[this], <<cat, value>>))
                ELSE calls
    /\ last' = [op |-> op, self |-> this, cat |-> cat, value |-> value,
                s1 |-> 0, comb |-> EmptyString, s2 |-> 0,
                ret |-> r.ret, str |-> r.str, err |-> r.err]

Element ==
    \E this \in DOMAIN objs, value \in Values :
        Appended("element", 0, this, value, element(Heap, this, value))

Id ==
    \E this \in DOMAIN objs, value \in Values :
        Appended("id", 1, this, value, id(Heap, this, value))

Class ==
    \E this \in DOMAIN objs, value \in Values :
        Appended("class", 2, this, value, class(Heap, this, value))

Attr ==
    \E this \in DOMAIN objs, value \in Values :
        Appended("attr", 3, this, value, attr(Heap, this, value))

PseudoClass ==
    \E this \in DOMAIN objs, value \in Values :
        Appended("pseudoClass", 4, this, value, pseudoClass(Heap, this, value))

PseudoElement ==
    \E this \in DOMAIN objs, value \in Values :
        Appended("pseudoElement", 5, this, value, pseudoElement(Heap, this, value))

\* builder.combine(selector1, combinator, selector2): the callers of combine
\* (the documented examples) invoke it on the cssSelectorBuilder object
Combine ==
    \E selector1 \in DOMAIN objs, selector2 \in DOMAIN objs,
       combinator \in Combinators :
        LET this == Builder
            r == combine(Heap, this, selector1, combinator, selector2)
        IN  /\ Step
            /\ UNCHANGED <<rectVars, siteVars>>
            /\ objs' = r.heap.objs
            /\ arrs' = r.heap.arrs
            /\ calls' = calls
            /\ last' = [op |-> "combine", self |-> this, cat |-> 0,
                        value |-> EmptyString, s1 |-> selector1,
                        comb |-> combinator, s2 |-> selector2,
                        ret |-> r.ret, str |-> r.str, err |-> r.err]

Stringify ==
    \E this \in DOMAIN objs :
        LET r == stringify(Heap, this)
        IN  /\ Step
            /\ UNCHANGED <<rectVars, siteVars>>
            /\ objs' = r.heap.objs
            /\ arrs' = r.heap.arrs
            /\ calls' = calls
            /\ last' = [op |-> "stringify", self |-> this, cat |-> 0,
                        value |-> EmptyString, s1 |-> 0, comb |-> EmptyString,
                        s2 |-> 0, ret |-> r.ret, str |-> r.str, err |-> r.err]

Next ==
    \/ Element
    \/ Id
    \/ Class
    \/ Attr
    \/ PseudoClass
    \/ PseudoElement
    \/ Combine
    \/ Stringify

Spec == Init /\ [][Next]_vars

\* ------------------------------------------ the rectangle and JSON machine
InitRectangle ==
    /\ BuilderInit
    /\ SitesInit([objs |-> <<>>, arrs |-> <<>>])
    /\ \E width \in Dims, height \in Dims : RectangleInit(width, height)

\* r.width = width
SetWidth ==
    \E width \in Dims :
        /\ rect' = Set(rect, "width", Num(width))
        /\ rlast' = [op |-> "setWidth", area |-> 0]
        /\ UNCHANGED <<json, decoded, builderVars, siteVars>>

\* r.height = height
SetHeight ==
    \E height \in Dims :
        /\ rect' = Set(rect, "height", Num(height))
        /\ rlast' = [op |-> "setHeight", area |-> 0]
        /\ UNCHANGED <<json, decoded, builderVars, siteVars>>

\* r.getArea()
GetArea ==
    /\ rlast' = [op |-> "getArea", area |-> getArea(rect)]
    /\ UNCHANGED <<rect, json, decoded, builderVars, siteVars>>

\* getJSON(obj), for the rectangle itself or for a literal of its width and
\* height
GetJSON ==
    \E obj \in {rect, Literal(Get(rect, "width").num, Get(rect, "height").num)} :
        /\ json' = [text |-> getJSON(obj),
                    width |-> Get(obj, "width").num,
                    height |-> Get(obj, "height").num]
        /\ rlast' = [op |-> "getJSON", area |-> 0]
        /\ UNCHANGED <<rect, decoded, builderVars, siteVars>>

\* fromJSON(Rectangle.prototype, json)
FromJSON ==
    /\ json # NoJson
    /\ decoded' = fromJSON("RectanglePrototype", json.text)
    /\ rlast' = [op |-> "fromJSON", area |-> 0]
    /\ UNCHANGED <<rect, json, builderVars, siteVars>>

NextRectangle ==
    \/ SetWidth
    \/ SetHeight
    \/ GetArea
    \/ GetJSON
    \/ FromJSON

SpecRectangle == InitRectangle /\ [][NextRectangle]_vars

\* ------------------------------------------------- two call sites machine
\* Two call sites share cssSelectorBuilder and the selector
\* shared = cssSelectorBuilder.element('s'); each also holds the value its
\* own last call returned.  Calls interleave one whole call at a time.  Each
\* call is also made in the site's `alone` heap, where the other site never
\* ran.
SiteIds == {1, 2}
Shared == 2
SharedValue == <<"s">>
SiteValue(s) == IF s = 1 THEN <<"a">> ELSE <<"b">>
SiteCombinator(s) == IF s = 1 THEN <<"+">> ELSE <<">">>

\* the heap after shared = cssSelectorBuilder.element('s')
SharedHeap ==
    element([objs |-> <<[string |-> EmptyString, selectorUsed |-> 1]>>,
             arrs |-> <<NoneUsed>>], Builder, SharedValue).heap

InitSites ==
    /\ objs = SharedHeap.objs
    /\ arrs = SharedHeap.arrs
    /\ calls = << <<>>, << <<0, SharedValue>> >> >>
    /\ last = [op |-> "init", self |-> 0, cat |-> 0, value |-> EmptyString,
               s1 |-> 0, comb |-> EmptyString, s2 |-> 0,
               ret |-> 0, str |-> EmptyString, err |-> NoError]
    /\ steps = 0
    /\ RectangleInit(10, 20)
    /\ SitesInit(SharedHeap)

\* the values a site can name: the builder, the shared selector, and what
\* its last call returned
Names(s) ==
    IF sites[s].held # 0 /\ sites[s].aheld # 0
    THEN {"builder", "shared", "held"} ELSE {"builder", "shared"}

\* the selectors among them: the operands of combine and what is rendered
Held(s) == Names(s) \ {"builder"}

Ref(name, held) ==
    CASE name = "builder" -> Builder
      [] name = "shared" -> Shared
      [] name = "held" -> held

\* Site s made a call: r is its outcome in the heap both sites use, ra its
\* outcome in the heap s would have alone.
SiteCalled(s, op, r, ra) ==
    /\ Step
    /\ objs' = r.heap.objs
    /\ arrs' = r.heap.arrs
    /\ sites' = [sites EXCEPT ![s] =
                    [held |-> IF r.ret # 0 THEN r.ret ELSE @.held,
                     out |-> [str |-> r.str, err |-> r.err],
                     alone |-> ra.heap,
                     aheld |-> IF ra.ret # 0 THEN ra.ret ELSE @.aheld,
                     aout |-> [str |-> ra.str, err |-> ra.err]]]
    /\ last' = [last EXCEPT !.op = op, !.self = s]
    /\ UNCHANGED <<calls, rectVars>>

\* receiver.<append method of category c>(value)
SiteAppend ==
    \E s \in SiteIds, c \in 0..(NSelectors - 1) :
        \E name \in Names(s) :
            SiteCalled(s, "append",
                CASE c = 0 -> element(Heap, Ref(name, sites[s].held), SiteValue(s))
                  [] c = 1 -> id(Heap, Ref(name, sites[s].held), SiteValue(s))
                  [] c = 2 -> class(Heap, Ref(name, sites[s].held), SiteValue(s))
                  [] c = 3 -> attr(Heap, Ref(name, sites[s].held), SiteValue(s))
                  [] c = 4 -> pseudoClass(Heap, Ref(name, sites[s].held), SiteValue(s))
                  [] c = 5 -> pseudoElement(Heap, Ref(name, sites[s].held), SiteValue(s)),
                CASE c = 0 -> element(sites[s].alone, Ref(name, sites[s].aheld), SiteValue(s))
                  [] c = 1 -> id(sites[s].alone, Ref(name, sites[s].aheld), SiteValue(s))
                  [] c = 2 -> class(sites[s].alone, Ref(name, sites[s].aheld), SiteValue(s))
                  [] c = 3 -> attr(sites[s].alone, Ref(name, sites[s].aheld), SiteValue(s))
                  [] c = 4 -> pseudoClass(sites[s].alone, Ref(name, sites[s].aheld), SiteValue(s))
                  [] c = 5 -> pseudoElement(sites[s].alone, Ref(name, sites[s].aheld), SiteValue(s)))

\* cssSelectorBuilder.combine(left, combinator, right)
SiteCombine ==
    \E s \in SiteIds :
        \E left \in Held(s), right \in Held(s) :
            SiteCalled(s, "combine",
                combine(Heap, Builder, Ref(left, sites[s].held),
                        SiteCombinator(s), Ref(right, sites[s].held)),
                combine(sites[s].alone, Builder, Ref(left, sites[s].aheld),
                        SiteCombinator(s), Ref(right, sites[s].aheld)))

\* receiver.stringify()
SiteStringify ==
    \E s \in SiteIds :
        \E name \in Held(s) :
            SiteCalled(s, "stringify",
                stringify(Heap, Ref(name, sites[s].held)),
                stringify(sites[s].alone, Ref(name, sites[s].aheld)))

NextSites ==
    \/ SiteAppend
    \/ SiteCombine
    \/ SiteStringify

SpecSites == InitSites /\ [][NextSites]_vars

\* ------------------------------------------------ vocabulary of the claims
Selectors == DOMAIN objs \ {Builder}
Categories == 0..(NSelectors - 1)

\* this.<method of category c>(value)
append(h, this, c, value) ==
    CASE c = 0 -> element(h, this, value)
      [] c = 1 -> id(h, this, value)
      [] c = 2 -> class(h, this, value)
      [] c = 3 -> attr(h, this, value)
      [] c = 4 -> pseudoClass(h, this, value)
      [] c = 5 -> pseudoElement(h, this, value)

IsAppend == last.op \in {"element", "id", "class", "attr", "pseudoClass", "pseudoElement"}

\* category c is among the appends that built v
UsedIn(v, c) == \E i \in DOMAIN calls[v] : calls[v][i][1] = c
\* a category with a greater index than c is among the appends that built v
HigherUsed(v, c) == \E d \in (c + 1)..(NSelectors - 1) : UsedIn(v, d)

\* the text one append of category c contributes
Fragment(c, value) ==
    CASE c = 0 -> value
      [] c = 1 -> <<"#">> \o value
      [] c = 2 -> <<".">> \o value
      [] c = 3 -> <<"[">> \o value \o <<"]">>
      [] c = 4 -> <<":">> \o value
      [] c = 5 -> <<":", ":">> \o value

\* the literals of slot c among the appends cs, in append order
RECURSIVE SlotText(_, _)
SlotText(cs, c) ==
    IF cs = <<>> THEN <<>>
    ELSE (IF Head(cs)[1] = c THEN Fragment(c, Head(cs)[2]) ELSE <<>>)
         \o SlotText(Tail(cs), c)

SlotConcat(cs) ==
    SlotText(cs, 0) \o SlotText(cs, 1) \o SlotText(cs, 2)
    \o SlotText(cs, 3) \o SlotText(cs, 4) \o SlotText(cs, 5)

\* what render returns on v in heap h, and the text left in v
Render(h, v) == stringify(h, v).str
Joined(x, combinator, y) == x \o <<" ">> \o combinator \o <<" ">> \o y

\* ------------------------------------------------------------------ claims

\* C1: rendering is idempotent: a selector that was just rendered still
\* holds the text it returned, and rendering it again returns the same string.
RenderIdempotent ==
    (last.op = "stringify" /\ last.self \in Selectors)
        => /\ objs[last.self].string = last.str
           /\ Render(Heap, last.self) = last.str

\* C2: appending category c to a value on which a higher-indexed category
\* was already appended fails with the order error and returns no value.
OrderEnforced ==
    (IsAppend /\ HigherUsed(last.self, last.cat))
        => (last.err = OrderError /\ last.ret = 0)

\* id was the very first append and element on the result threw the order error
OrderEnforcedWitness ==
    /\ last.op = "element"
    /\ last.err = OrderError
    /\ Len(calls[last.self]) = 1
    /\ calls[last.self][1][1] = 1

\* C3 as stated: a second element, or a second pseudoElement, fails with the
\* duplicate error whatever was appended in between.
SecondUniqueIsDuplicate ==
    (last.op \in {"element", "pseudoElement"} /\ UsedIn(last.self, last.cat))
        => last.err = OccurError

\* C3 amended: a second element fails, with the duplicate error when no
\* higher-indexed category was appended since and with the order error
\* otherwise; a second pseudoElement fails with the duplicate error.
SecondUniqueFails ==
    (last.op \in {"element", "pseudoElement"} /\ UsedIn(last.self, last.cat))
        => last.err = IF HigherUsed(last.self, last.cat)
                      THEN OrderError ELSE OccurError

\* element, then id, then a second element, which threw the order error
SecondUniqueFailsWitness ==
    /\ last.op = "element"
    /\ last.err = OrderError
    /\ Len(calls[last.self]) = 2
    /\ calls[last.self][1][1] = 0
    /\ calls[last.self][2][1] = 1

\* C4 as stated: an append fails exactly when a higher-indexed category is
\* used, or the category is Type or PseudoElement and is already used.
ErrorsExactlyOnInvariants ==
    IsAppend =>
        ((last.err # NoError)
            <=> \/ HigherUsed(last.self, last.cat)
                \/ (last.cat \in {0, 5} /\ UsedIn(last.self, last.cat)))

\* C4 amended: an append fails exactly when a higher-indexed category is
\* used, or the category is Type, Id or PseudoElement and is already used.
ErrorsExactlyOnOrderOrOccur ==
    IsAppend =>
        ((last.err # NoError)
            <=> \/ HigherUsed(last.self, last.cat)
                \/ (last.cat \in {0, 1, 5} /\ UsedIn(last.self, last.cat)))

\* id('a').id('b'): the second id threw the duplicate error
ErrorsExactlyWitness ==
    /\ last.op = "id"
    /\ last.err = OccurError
    /\ Len(calls[last.self]) = 1
    /\ calls[last.self][1][1] = 1

\* C5: an append that is both out of order and a duplicate of a once-only
\* category reports the order error, never the duplicate error.
OrderBeforeUniqueness ==
    (/\ IsAppend
     /\ last.cat \in {0, 1, 5}
     /\ UsedIn(last.self, last.cat)
     /\ HigherUsed(last.self, last.cat))
        => last.err = OrderError

\* a duplicate, out-of-order element was attempted and threw the order error
OrderBeforeUniquenessWitness ==
    /\ last.op = "element"
    /\ last.err = OrderError
    /\ UsedIn(last.self, 0)
    /\ \E d \in 2..(NSelectors - 1) : UsedIn(last.self, d)

\* C6: a successful append on v returns a new object, leaves the text and
\* the flags of v and of every other existing object as they were, gives
\* the new object a flag array of its own (v's flags plus the category), and
\* the new text is v's text followed by the one fragment: so two extensions
\* of one base each hold the base's text and their own fragment only.
CopyOnAppend ==
    [][(IsAppend' /\ last'.err = NoError) =>
          LET v == last'.self
              n == last'.ret
          IN  /\ n \notin DOMAIN objs
              /\ n \in DOMAIN objs'
              /\ \A o \in DOMAIN objs :
                    /\ objs'[o] = objs[o]
                    /\ arrs'[objs[o].selectorUsed] = arrs[objs[o].selectorUsed]
                    /\ objs'[n].selectorUsed # objs[o].selectorUsed
              /\ arrs'[objs'[n].selectorUsed] =
                    [arrs[objs[v].selectorUsed] EXCEPT ![last'.cat] = TRUE]
              /\ objs'[n].string =
                    objs[v].string \o Fragment(last'.cat, last'.value)]_vars

\* a built selector v was extended twice, by class('a') and by class('b')
CopyOnAppendWitness ==
    /\ last.op = "class"
    /\ last.err = NoError
    /\ last.self \in Selectors
    /\ \E o \in Selectors :
          /\ o # last.ret
          /\ calls[o] = Append(calls[last.self], <<2, <<"a">> >>)
          /\ calls[last.ret] = Append(calls[last.self], <<2, <<"b">> >>)
          /\ objs[o].string = objs[last.self].string \o <<".", "a">>
          /\ objs[last.ret].string = objs[last.self].string \o <<".", "b">>

\* C7: a selector built by appends from the builder renders as the
\* concatenation, slot 0 to slot 5, of its literals with their prefixes, and
\* nothing else, wherever in the program it is built.
RenderIsSlotConcat ==
    (IsAppend /\ last.err = NoError)
        => Render(Heap, last.ret) = SlotConcat(calls[last.ret])

\* C8: combine(left, token, right) returns a value whose render is
\* render(left) + ' ' + token + ' ' + render(right), for any two selectors
\* and any token.
CombineRendersJoined ==
    [][(last'.op = "combine" /\ last'.s1 \in Selectors /\ last'.s2 \in Selectors) =>
          /\ last'.err = NoError
          /\ Render([objs |-> objs', arrs |-> arrs'], last'.ret) =
                Joined(Render(Heap, last'.s1), last'.comb, Render(Heap, last'.s2))]_vars

\* The value of builder.combine(a, t, b) evaluated in heap h, and the text
\* that combination holds when it is returned.
Combined(h, a, t, b) ==
    LET r == combine(h, Builder, a, t, b)
    IN  [heap |-> r.heap, ret |-> r.ret, text |-> r.heap.objs[r.ret].string]

\* C9: combine accepts a prior combination on the left, on the right, or on
\* both sides, and renders each nested combination's full text around the
\* token (the two inner combinations are made of different selectors).
NestedCombine ==
    \A a \in Selectors, b \in Selectors, c \in Selectors, d \in Selectors,
       t \in Combinators, u \in Combinators :
        LET x == Combined(Heap, a, t, b)
            onLeft == Combined(x.heap, x.ret, u, c)
            onRight == Combined(x.heap, c, u, x.ret)
            y == Combined(x.heap, c, t, d)
            onBoth == Combined(y.heap, x.ret, u, y.ret)
        IN  ({a, b} \cap {c, d} = {}) =>
              /\ Render(onLeft.heap, onLeft.ret) = Joined(x.text, u, Render(Heap, c))
              /\ Render(onRight.heap, onRight.ret) = Joined(Render(Heap, c), u, x.text)
              /\ Render(onBoth.heap, onBoth.ret) = Joined(x.text, u, y.text)

\* C10: combine has no side effect: (a) left and right render afterwards
\* what they rendered before, (b) the builder it was invoked on is unchanged
\* and a selector started on it afterwards holds only its own fragment,
\* (c) the combination still renders its own text after a later combine.
CombineSideEffectFree ==
    [][(last'.op = "combine" /\ last'.s1 \in Selectors /\ last'.s2 \in Selectors) =>
          LET after == [objs |-> objs', arrs |-> arrs']
          IN  /\ Render(after, last'.s1) = Render(Heap, last'.s1)
              /\ Render(after, last'.s2) = Render(Heap, last'.s2)
              /\ objs'[Builder] = objs[Builder]
              /\ \A value \in Values :
                    LET e == element(after, Builder, value)
                    IN  Render(e.heap, e.ret) = objs[Builder].string \o value
              /\ \A c \in Selectors, d \in Selectors, t \in Combinators :
                    LET y == Combined(after, c, t, d)
                    IN  Render(y.heap, last'.ret) = Render(after, last'.ret)]_vars

\* C11: in every interleaving of two call sites' calls on the shared builder
\* and the shared selector, each call returns to its site the string, or
\* throws the error, it would have returned or thrown had the site run alone.
SitesIndependent ==
    \A s \in SiteIds : sites[s].out = sites[s].aout

\* C12: a failed append returns no value and leaves every object's text and
\* flags exactly as they were, so whatever could be appended to v before the
\* failed call can still be appended, with the same result.
FailedAppendChangesNothing ==
    [][(IsAppend' /\ last'.err # NoError) =>
          /\ last'.ret = 0
          /\ objs' = objs
          /\ arrs' = arrs]_vars

\* a second element on a selector that holds text threw the duplicate error
FailedAppendWitness ==
    /\ last.op = "element"
    /\ last.err = OccurError
    /\ last.self \in Selectors
    /\ objs[last.self].string # EmptyString

\* C13: class, attr and pseudoClass succeed on every value on which no
\* higher-indexed category was appended, however often they were appended
\* already, and each call adds its one fragment after the receiver's text.
RepeatableSucceed ==
    (IsAppend /\ last.cat \in {2, 3, 4} /\ ~HigherUsed(last.self, last.cat))
        => /\ last.err = NoError
           /\ objs[last.ret].string =
                 objs[last.self].string \o Fragment(last.cat, last.value)

\* class('a').class('b').class('a'): the third consecutive class call
\* succeeded and the fragments are in call order
RepeatableWitness ==
    /\ last.op = "class"
    /\ last.err = NoError
    /\ calls[last.ret] = << <<2, <<"a">> >>, <<2, <<"b">> >>, <<2, <<"a">> >> >>
    /\ objs[last.ret].string = <<".", "a", ".", "b", ".", "a">>

\* C16: a second id on a value on which id was appended and no
\* higher-indexed category is used throws the 'should not occur more then
\* one time' error.
IdOnceOnly ==
    (last.op = "id" /\ UsedIn(last.self, 1) /\ ~HigherUsed(last.self, 1))
        => (last.err = OccurError /\ last.ret = 0)

\* element('a').id('b') and then a second id, which threw that error
IdOnceOnlyWitness ==
    /\ last.op = "id"
    /\ last.err = OccurError
    /\ Len(calls[last.self]) = 2
    /\ calls[last.self][1][1] = 0
    /\ calls[last.self][2][1] = 1

\* C17: the builder's own six flags are false in every state, and every
\* append invoked directly on the builder succeeds.
BuilderNeverUsed ==
    /\ \A i \in Categories : ~Used(Heap, Builder, i)
    /\ (IsAppend /\ last.self = Builder) => last.err = NoError

\* an append on the builder succeeded after an earlier append and a combine
\* that left its text in the builder
BuilderNeverUsedWitness ==
    /\ IsAppend
    /\ last.self = Builder
    /\ last.err = NoError
    /\ Len(objs) >= 3
    /\ objs[Builder].string # EmptyString

\* C18: a render, direct or as an argument of combine, changes no
\* used-category flag: every append on a rendered value succeeds or fails
\* afterwards, with the same error, as it did before the render.
RenderKeepsFlags ==
    [][(last'.op \in {"stringify", "combine"}) =>
          LET after == [objs |-> objs', arrs |-> arrs']
              rendered == IF last'.op = "combine"
                          THEN {last'.s1, last'.s2} ELSE {last'.self}
          IN  /\ arrs' = arrs
              /\ \A o \in DOMAIN objs :
                    objs'[o].selectorUsed = objs[o].selectorUsed
              /\ \A v \in rendered, c \in Categories :
                    LET value == CHOOSE x \in Values : TRUE
                    IN  append(after, v, c, value).err = append(Heap, v, c, value).err]_vars

\* a selector was built, rendered, and an append on it then threw the order
\* error although its text is empty
RenderKeepsFlagsWitness ==
    /\ IsAppend
    /\ last.err = OrderError
    /\ last.self \in Selectors
    /\ objs[last.self].string = EmptyString

\* C14: decoding with the rectangle's prototype what getJSON made of a
\* value {width: w, height: h} yields an object whose width is w, whose
\* height is h, and on which the area operation is available and returns w*h.
DecodeRoundTrip ==
    rlast.op = "fromJSON" =>
        /\ Get(decoded, "width") = Num(json.width)
        /\ Get(decoded, "height") = Num(json.height)
        /\ Get(decoded, "getArea").type = "function"
        /\ getArea(decoded) = json.width * json.height

\* C15: every area read returns the product of the width and the height the
\* rectangle has at that moment, whatever was assigned since construction.
AreaIsDerived ==
    rlast.op = "getArea" =>
        rlast.area = Get(rect, "width").num * Get(rect, "height").num

\* Rectangle(10, 20) after width := 5: the area read is 100
AreaIsDerivedWitness ==
    /\ rlast.op = "getArea"
    /\ rlast.area = 100
    /\ Get(rect, "width") = Num(5)
    /\ Get(rect, "height") = Num(20)
    /\ Get(rect, "getArea") = Fn(10, 20)

====
